---- MODULE Spec2Model ----
(***************************************************************************)
(* Batch port-reset workflows of the network dashboard:                    *)
(*   api/routes.py   reset_down_port_only, reset_down_port_only_sse,       *)
(*                   reset_all_locations, reset_all_locations_sse,         *)
(*                   verify_port_connectivity, get_locations_from_data_file*)
(*   routine/ResetDownOnly.py  check_and_reset_down_ports, ping_host,      *)
(*                   reset_single_location                                 *)
(*   routine/ResetAll.py  reset_all_locations, reset_single_location       *)
(*   service/SSHConnection.py  reset_port_poe,                             *)
(*                   retrieve_ssh_info_from_config                         *)
(* Spec: one run of one batch handler from the request to the response.    *)
(* TargetSpec: the handling of one target, with reset_port_poe step by     *)
(* step.  StreamSpec: a streamed run driven to its end.  LookupSpec:       *)
(* retrieve_ssh_info_from_config on one row, with extract_ip_address.      *)
(* ServerSpec: the request threads of the server side by side.             *)
(* The outside world (the ping process, the switch, the                    *)
(* spreadsheet, the environment) answers nondeterministically.             *)
(* log.log_to_file (api/util/log.py) is taken to succeed.                  *)
(***************************************************************************)
EXTENDS Integers, Sequences, FiniteSets, TLC

\* ------------------------------------------------------------------ bounds
\* Largest directory (number of distinct locations in the Hardware list).
MaxLocs == 3

\* ------------------------------------------------------- program constants
TimeoutMax == 300
DefaultTimeout == 10

VARIABLES
    mode,                 \* which batch handler runs
    pc,                   \* position of the handler
    timeout_in,           \* data.get('timeout', 10) as received
    timeout,              \* int(timeout) once validated, 0 before
    ssh_username,         \* os.getenv('SSH_USERNAME')
    ssh_password,         \* os.getenv('SSH_PASSWORD')
    locations,            \* result['locations']
    i,                    \* sweep loop position (1-based)
    vi,                   \* verification loop position (1-based)
    down_locations,
    reset_attempted,
    reset_successful,
    reset_failed,
    not_down,
    successful_locations, \* full batch
    failed_locations,     \* full batch
    oplog,                \* external operations performed, in order
    events,               \* SSE frames yielded, in order
    response,             \* what the caller finally gets
    \* --- one target in detail (specification TargetSpec)
    tpc,                  \* position in the handling of the target
    probe,                \* the last ping: who ran it, its outcome, verdict
    ssh,                  \* the paramiko client: "none", "open", "closed"
    shell,                \* the interactive channel: "none", "open", "closed"
    wire,                 \* what reset_port_poe did on the session, in order
    cmd,                  \* index of the next command of the sequence
    exc,                  \* the exception raised inside reset_port_poe
    poe_ret,              \* what the call of reset_port_poe gave its caller
    reported,             \* the failure the caller records for the target
    port_assignment,      \* the target's row of sheet 'Port assignment' now
    environ,              \* SSH_USERNAME / SSH_PASSWORD in os.environ now
    ssh_config,           \* the ssh_config handed to reset_port_poe
    \* --- the configuration lookup in detail (specification LookupSpec)
    row,                  \* the location's row of sheet 'Port assignment'
    info,                 \* what retrieve_ssh_info_from_config gave
    \* --- the server's request threads (specification ServerSpec)
    requests              \* per thread: the request it handles and where

batch_vars == << mode, pc, timeout_in, timeout, ssh_username, ssh_password,
                 locations, i, vi, down_locations, reset_attempted,
                 reset_successful, reset_failed, not_down,
                 successful_locations, failed_locations, oplog, events,
                 response >>

\* What a run reads again while it handles a target, and the ssh_config it
\* builds from it.
world_vars == << port_assignment, environ, ssh_config >>

target_vars == << tpc, probe, ssh, shell, wire, cmd, exc, poe_ret, reported,
                  world_vars >>

lookup_vars == << row, info >>

server_vars == << requests >>

vars == << batch_vars, target_vars, lookup_vars, server_vars >>

\* ------------------------------------------------------------------ inputs
DownHttpModes == {"http_down", "sse_down"}
DownModes == {"http_down", "sse_down", "script_down"}
AllModes == {"http_all", "sse_all"}
SseModes == {"sse_down", "sse_all"}
HttpModes == {"http_down", "http_all"}
\* The two command-line scripts; ResetAll.py is the full batch as a script.
ScriptModes == {"script_down", "script_all"}
FullModes == AllModes \cup {"script_all"}
Modes == DownModes \cup FullModes

\* The JSON value of "timeout".  v is the integer value; for a float it is
\* the value in tenths (3009 is 300.9).
TimeoutInputs ==
    { [kind |-> "absent", v |-> 0],
      [kind |-> "int", v |-> 0], [kind |-> "int", v |-> 1],
      [kind |-> "int", v |-> 300], [kind |-> "int", v |-> 301],
      [kind |-> "int", v |-> -1],
      [kind |-> "float", v |-> 3009], [kind |-> "float", v |-> 5],
      [kind |-> "str_num", v |-> 300],
      [kind |-> "str_bad", v |-> 0],
      [kind |-> "null", v |-> 0],
      [kind |-> "inf", v |-> 0] }

\* An environment variable: unset (None), set to "", or set to a value.
EnvValues == {"unset", "empty", "set"}

\* BATCH_VERIFICATION_DELAY_SECONDS: unset, a non-negative integer, a
\* negative integer, or not an integer.
DelayEnvValues == {"unset", "int", "neg_int", "not_int"}

\* What one run of the ping process can do.
ProbeOutcomes ==
    { [kind |-> "exit", rc |-> 0, ttl |-> TRUE,  ms |-> TRUE,  time |-> TRUE],
      [kind |-> "exit", rc |-> 0, ttl |-> FALSE, ms |-> TRUE,  time |-> TRUE],
      [kind |-> "exit", rc |-> 0, ttl |-> FALSE, ms |-> TRUE,  time |-> FALSE],
      [kind |-> "exit", rc |-> 0, ttl |-> FALSE, ms |-> FALSE, time |-> FALSE],
      [kind |-> "exit", rc |-> 1, ttl |-> FALSE, ms |-> FALSE, time |-> FALSE],
      [kind |-> "exit", rc |-> 1, ttl |-> TRUE,  ms |-> TRUE,  time |-> TRUE],
      [kind |-> "timeout", rc |-> 0, ttl |-> FALSE, ms |-> FALSE, time |-> FALSE],
      [kind |-> "error", rc |-> 0, ttl |-> FALSE, ms |-> FALSE, time |-> FALSE] }

\* retrieve_ssh_info_from_config: a config, None, or an exception.
CfgOutcomes == {"found", "none", "raise"}

\* reset_port_poe: all steps done, connect failed, or a step after connect
\* failed.
ResetOutcomes == {"ok", "connect_fail", "late_fail"}

\* get_locations_from_data_file: the sheet as read.
LoadOutcomes == {"ok", "no_columns", "not_found", "read_error"}

Op(o, l, r) == [op |-> o, loc |-> l, res |-> r]
Ev(t, l, s) == [type |-> t, loc |-> l, success |-> s]
Resp(f, c, d, m) == [flag |-> f, code |-> c, detail |-> d, msg |-> m]

NoResponse == Resp("none", 0, "none", "pending")

\* ------------------------------------------------------- request checking
\* data.get('timeout', 10): the default applies when the key is absent.
RequestTimeout(t) ==
    IF t.kind = "absent" THEN [kind |-> "int", v |-> DefaultTimeout] ELSE t

\* Python's int(): identity on integers, truncation toward zero on floats,
\* parsing on strings; ValueError, TypeError or OverflowError otherwise.
PyInt(t) ==
    CASE t.kind = "int"     -> [exc |-> "none", v |-> t.v]
      [] t.kind = "float"   -> [exc |-> "none",
                                v |-> IF t.v >= 0 THEN t.v \div 10
                                      ELSE -((-t.v) \div 10)]
      [] t.kind = "str_num" -> [exc |-> "none", v |-> t.v]
      [] t.kind = "str_bad" -> [exc |-> "ValueError", v |-> 0]
      [] t.kind = "null"    -> [exc |-> "TypeError", v |-> 0]
      [] t.kind = "inf"     -> [exc |-> "OverflowError", v |-> 0]

\* if timeout <= 0 or timeout > 300: raise ValueError
TimeoutOutOfRangeOffByOne(v) == v < 0 \/ v > TimeoutMax
TimeoutOutOfRange(v) == v <= 0 \/ v > TimeoutMax

\* The try/except (ValueError, TypeError) around int(timeout) and the range
\* test: "ok", "invalid" (the handler's own rejection) or "unexpected" (an
\* exception the inner except does not catch, left to the outer handler).
ValidateTimeout(t) ==
    LET c == PyInt(RequestTimeout(t)) IN
    IF c.exc \in {"ValueError", "TypeError"} THEN "invalid"
    ELSE IF c.exc # "none" THEN "unexpected"
    ELSE IF TimeoutOutOfRange(c.v) THEN "invalid"
    ELSE "ok"

\* if not ssh_username or not ssh_password
CredsMissingBoth(u, p) == u \in {"unset", "empty"} /\ p \in {"unset", "empty"}
CredsMissing(u, p) == u \in {"unset", "empty"} \/ p \in {"unset", "empty"}

NoProbe == [by |-> "none",
            p |-> [kind |-> "none", rc |-> 0, ttl |-> FALSE, ms |-> FALSE,
                   time |-> FALSE],
            reachable |-> FALSE]

\* No diagnostics attached.
NoDiag == [hostname_resolution |-> "-", ssh_port_open |-> "-",
           connection_test |-> "-"]

NoReport == [error |-> "none", error_type |-> "none", diagnostics |-> NoDiag]

\* No ssh_config has been built.
NoConfig == [row |-> "-", creds |-> "-"]

\* The target's row of 'Port assignment' (Location, SSH IP, Switch port):
\* "none" when the sheet has no complete row for the location, "row1" the
\* row it has when the run starts, "row2" a row written by /config/edit
\* after the start, "removed" when /config/edit has dropped the row.
PortRows == {"none", "row1", "row2", "removed"}
RowUsable(r) == r \in {"row1", "row2"}

\* The credentials in the process environment: those the run read at its
\* start, other values, or none.
EnvStates == {"at_start", "changed", "cleared"}

\* Requests the server handles at the same time.
MaxThreads == 2
Threads == 1..MaxThreads

\* A thread with no request.
NoRequest == [handler |-> "none", at |-> "idle", left |-> 0,
              switch |-> "none", session |-> "none"]
ServerIdle == requests = [t \in Threads |-> NoRequest]

\* No row is being looked up.
NoRow == [present |-> FALSE, ssh_ip |-> << >>,
          switch_port |-> [kind |-> "text", text |-> << >>]]
NoInfo == [state |-> "pending", hostname |-> << >>, port |-> 0,
           target_port |-> << >>]
LookupIdle == row = NoRow /\ info = NoInfo

\* Nothing has been done for the target yet.
TargetIdle ==
    /\ probe = NoProbe
    /\ ssh = "none"
    /\ shell = "none"
    /\ wire = << >>
    /\ cmd = 1
    /\ exc = "none"
    /\ poe_ret = "none"
    /\ reported = NoReport
    /\ environ = "at_start"
    /\ ssh_config = NoConfig

Init ==
    /\ tpc = "idle"
    /\ port_assignment = "row1"
    /\ LookupIdle
    /\ TargetIdle
    /\ ServerIdle
    /\ mode \in Modes
    /\ pc = "start"
    /\ timeout_in = [kind |-> "absent", v |-> 0]
    /\ timeout = 0
    /\ ssh_username \in EnvValues
    /\ ssh_password \in EnvValues
    /\ locations = << >>
    /\ i = 1
    /\ vi = 1
    /\ down_locations = << >>
    /\ reset_attempted = << >>
    /\ reset_successful = << >>
    /\ reset_failed = << >>
    /\ not_down = << >>
    /\ successful_locations = << >>
    /\ failed_locations = << >>
    /\ oplog = << >>
    /\ events = << >>
    /\ response = NoResponse

\* How a run that stops before the sweep reports: an HTTP response, one
\* error frame on a stream, or the script's error summary (main exits 1).
Reject(code, detail, msg) ==
    /\ pc' = "done"
    /\ response' = IF mode \in ScriptModes THEN Resp("none", 1, detail, msg)
                   ELSE IF mode \in SseModes THEN Resp("false", 200, detail, msg)
                   ELSE Resp("false", code, detail, msg)
    /\ events' = IF mode \in SseModes
                 THEN Append(events, Ev("error", 0, "-")) ELSE events

\* Timeout validation and credential check at the head of every handler.
\* A script takes no request: its timeout is the default of its signature
\* and it only checks the credentials.
CheckPreconditions ==
    /\ pc = "start"
    /\ \E t \in (IF mode \in ScriptModes THEN {[kind |-> "absent", v |-> 0]}
                 ELSE TimeoutInputs) :
         LET tv == ValidateTimeout(t) IN
         /\ timeout_in' = t
         /\ IF tv = "invalid"
            THEN Reject(400, "none", "invalid_timeout") /\ timeout' = timeout
            ELSE IF tv = "unexpected"
            THEN Reject(500, "error_type", "unexpected") /\ timeout' = timeout
            ELSE IF CredsMissing(ssh_username, ssh_password)
            THEN /\ Reject(500, "none", "no_creds")
                 /\ timeout' = PyInt(RequestTimeout(t)).v
            ELSE /\ pc' = "load"
                 /\ timeout' = PyInt(RequestTimeout(t)).v
                 /\ UNCHANGED << response, events >>
    /\ UNCHANGED << mode, ssh_username, ssh_password, locations, i, vi,
                    down_locations, reset_attempted, reset_successful,
                    reset_failed, not_down, successful_locations,
                    failed_locations, oplog >>
    /\ UNCHANGED target_vars
    /\ UNCHANGED lookup_vars
    /\ UNCHANGED server_vars

\* get_locations_from_data_file / get_all_locations: read the sheet, drop
\* rows with a missing Location or IP, take the distinct locations.  An
\* empty list is reported as a failure ("No locations found").  The
\* scripts' get_all_locations print the cause and return an empty list,
\* which their callers report the same way; ResetDownOnly's returns the
\* pair ([], None) for a missing file or a read error.
LoadDirectory ==
    /\ pc = "load"
    /\ \E ld \in LoadOutcomes, n \in 0..MaxLocs :
         /\ oplog' = Append(oplog, Op("load_dir", 0, ld))
         /\ IF ld = "no_columns" /\ mode = "script_down"
            THEN \* get_all_locations returns a bare list here and the
                 \* caller's two-name unpacking raises
                 Reject(500, "none", "raised") /\ locations' = locations
            ELSE IF ld # "ok" /\ mode \notin ScriptModes
            THEN Reject(500, "none", "load_error") /\ locations' = locations
            ELSE IF ld # "ok" \/ n = 0
            THEN Reject(500, "none", "no_locations") /\ locations' = locations
            ELSE /\ locations' = [k \in 1..n |-> k]
                 /\ pc' = "sweep"
                 /\ response' = response
                 /\ events' = IF mode \in SseModes
                              THEN Append(events, Ev("start", 0, "-"))
                              ELSE events
    /\ UNCHANGED << mode, timeout_in, timeout, ssh_username, ssh_password, i,
                    vi, down_locations, reset_attempted, reset_successful,
                    reset_failed, not_down, successful_locations,
                    failed_locations >>
    /\ UNCHANGED target_vars
    /\ UNCHANGED lookup_vars
    /\ UNCHANGED server_vars

\* ------------------------------------------------------------------ probes
\* returncode == 0 and ('ttl=' in out or ('ms' in out and 'time=' in out))
PingSuccess(p) == p.rc = 0 /\ (p.ttl \/ (p.ms /\ p.time))

\* ResetDownOnly.ping_host: the exit status alone; a timeout or any other
\* exception is caught and gives False.
PingHost(p) == p.kind = "exit" /\ p.rc = 0

\* routes.verify_port_connectivity: the same test as the sweep probe; a
\* timeout or any other exception is caught and gives False.
VerifyPortConnectivity(p) == p.kind = "exit" /\ PingSuccess(p)

\* The branch of the sweep's loop body a probe outcome leads to.  In the
\* HTTP handlers the probe is inline: TimeoutExpired and every other
\* exception leave the try block for the two outer except clauses.
ProbeClass(m, p) ==
    IF m = "script_down"
    THEN (IF PingHost(p) THEN "reachable" ELSE "unreachable")
    ELSE IF p.kind = "timeout" THEN "timeout"
    ELSE IF p.kind = "error" THEN "error"
    ELSE IF PingSuccess(p) THEN "reachable"
    ELSE "unreachable"

\* The remediation code sits in the else branch of "if ping_success".
AttemptsResetAlways(cls) == TRUE
AttemptsReset(cls) == cls = "unreachable"

\* ----------------------------------------------------------- remediation
\* reset_port_poe: returns True after connect, both command sequences, the
\* status query and ssh.close(); every exception is caught and gives False
\* (the except clauses do not close the client).
ResetPortPoe(loc, r) ==
    CASE r = "ok" ->
           [ok |-> TRUE,
            ops |-> << Op("ssh_open", loc, ""), Op("ssh_close", loc, "") >>]
      [] r = "connect_fail" ->
           [ok |-> FALSE, ops |-> << Op("ssh_connect_failed", loc, "") >>]
      [] r = "late_fail" ->
           [ok |-> FALSE, ops |-> << Op("ssh_open", loc, "") >>]

Empty == [nd |-> << >>, dl |-> << >>, ra |-> << >>, rs |-> << >>,
          rf |-> << >>, ops |-> << >>, evs |-> << >>]

\* What the HTTP handlers do for a target found unreachable: look up the
\* switch, reset the port, record the outcome.
RemediateHttp(m, loc, cfg, r) ==
    LET poe == ResetPortPoe(loc, r)
        sse == m = "sse_down"
        lookup == << Op("cfg_lookup", loc, cfg) >>
    IN  CASE cfg = "none" ->
               [Empty EXCEPT
                  !.rf = << [location |-> loc, error |-> "config_missing"] >>,
                  !.ops = lookup,
                  !.evs = IF sse THEN << Ev("reset_error", loc, "-") >>
                          ELSE << >>]
          [] cfg = "raise" ->
               [Empty EXCEPT
                  !.rf = << [location |-> loc, error |-> "exception"] >>,
                  !.ops = lookup,
                  !.evs = IF sse THEN << Ev("reset_error", loc, "-") >>
                          ELSE << >>]
          [] cfg = "found" /\ poe.ok ->
               [Empty EXCEPT
                  !.ra = IF sse THEN << >> ELSE << loc >>,
                  !.rs = << [location |-> loc, verified |-> FALSE] >>,
                  !.ops = lookup \o poe.ops,
                  !.evs = IF sse THEN << Ev("reset_success", loc, "-") >>
                          ELSE << >>]
          [] cfg = "found" /\ ~poe.ok ->
               [Empty EXCEPT
                  !.ra = IF sse THEN << >> ELSE << loc >>,
                  !.rf = << [location |-> loc, error |-> "reset_failed"] >>,
                  !.ops = lookup \o poe.ops,
                  !.evs = IF sse THEN << Ev("reset_error", loc, "-") >>
                          ELSE << >>]

\* ResetDownOnly.reset_single_location as called from the script's sweep:
\* every failure (no config, an exception, missing credentials, a failed
\* reset) comes back as False; a failed reset is followed by diagnostics.
RemediateScript(loc, cfg, r) ==
    LET poe == ResetPortPoe(loc, r)
        lookup == << Op("cfg_lookup", loc, cfg) >>
        called == cfg = "found" /\ ~CredsMissing(ssh_username, ssh_password)
        ok == called /\ poe.ok
    IN  [Empty EXCEPT
           !.ra = << loc >>,
           !.rs = IF ok THEN << [location |-> loc, verified |-> FALSE] >>
                  ELSE << >>,
           !.rf = IF ok THEN << >>
                  ELSE << [location |-> loc, error |-> "reset_failed"] >>,
           !.ops = lookup \o (IF called THEN poe.ops ELSE << >>)
                   \o (IF called /\ ~poe.ok
                       THEN << Op("diag", loc, "") >> ELSE << >>)]

RemediateLosesException(m, loc, cfg, r) ==
    IF cfg = "raise" THEN [Empty EXCEPT !.ops = << Op("cfg_lookup", loc, cfg) >>]
    ELSE IF m = "script_down" THEN RemediateScript(loc, cfg, r)
    ELSE RemediateHttp(m, loc, cfg, r)
RemediateWithoutConfig(m, loc, cfg, r) ==
    LET c == IF cfg = "none" THEN "found" ELSE cfg
        a == IF m = "script_down" THEN RemediateScript(loc, c, r)
             ELSE RemediateHttp(m, loc, c, r)
    IN  [a EXCEPT !.ops = << Op("cfg_lookup", loc, cfg) >> \o Tail(a.ops)]
RemediateRepeatsOutcome(m, loc, cfg, r) ==
    LET a == IF m = "script_down" THEN RemediateScript(loc, cfg, r)
             ELSE RemediateHttp(m, loc, cfg, r)
    IN  [a EXCEPT !.evs = a.evs \o a.evs]
Remediate(m, loc, cfg, r) ==
    IF m = "script_down" THEN RemediateScript(loc, cfg, r)
    ELSE RemediateHttp(m, loc, cfg, r)

\* What the outcome of the probe alone adds to the lists and to the stream.
Classified(m, loc, cls) ==
    LET sse == m = "sse_down"
        st(x) == IF sse THEN "-" ELSE x
    IN  CASE cls = "reachable" ->
               [Empty EXCEPT
                  !.nd = << [location |-> loc, status |-> st("reachable")] >>,
                  !.evs = IF sse THEN << Ev("ping_result", loc, "true") >>
                          ELSE << >>]
          [] cls = "unreachable" ->
               [Empty EXCEPT
                  !.dl = << [location |-> loc, status |-> st("unreachable")] >>,
                  !.evs = IF sse THEN << Ev("ping_debug", loc, "-"),
                                         Ev("reset_attempt", loc, "-") >>
                          ELSE << >>]
          [] cls = "timeout" ->
               [Empty EXCEPT
                  !.dl = << [location |-> loc, status |-> st("ping_timeout")] >>,
                  !.evs = IF sse THEN << Ev("ping_result", loc, "false") >>
                          ELSE << >>]
          [] cls = "error" ->
               [Empty EXCEPT
                  !.rf = << [location |-> loc, error |-> "processing"] >>,
                  !.evs = IF sse THEN << Ev("reset_error", loc, "-") >>
                          ELSE << >>]

\* One iteration of the down-only loop: probe, classify, remediate.
DownIteration(m, loc, p, cfg, r) ==
    LET cls == ProbeClass(m, p)
        c == Classified(m, loc, cls)
        a == IF AttemptsReset(cls) THEN Remediate(m, loc, cfg, r) ELSE Empty
    IN  [nd |-> c.nd \o a.nd, dl |-> c.dl \o a.dl, ra |-> c.ra \o a.ra,
         rs |-> c.rs \o a.rs, rf |-> c.rf \o a.rf,
         ops |-> << Op("probe", loc, cls) >> \o c.ops \o a.ops,
         evs |-> (IF m = "sse_down" THEN << Ev("progress", loc, "-") >>
                  ELSE << >>) \o c.evs \o a.evs]

\* The body of "for location in locations" of reset_down_port_only, of its
\* SSE variant and of check_and_reset_down_ports (which also sleeps 2 s
\* between targets).
SweepDown ==
    /\ pc = "sweep"
    /\ mode \in DownModes
    /\ i <= Len(locations)
    /\ \E p \in ProbeOutcomes, cfg \in CfgOutcomes, r \in ResetOutcomes :
         LET d == DownIteration(mode, locations[i], p, cfg, r) IN
         /\ not_down' = not_down \o d.nd
         /\ down_locations' = down_locations \o d.dl
         /\ reset_attempted' = reset_attempted \o d.ra
         /\ reset_successful' = reset_successful \o d.rs
         /\ reset_failed' = reset_failed \o d.rf
         /\ oplog' = oplog \o d.ops
                     \o (IF mode = "script_down" /\ i < Len(locations)
                         THEN << Op("sleep_inter", 0, "") >> ELSE << >>)
         /\ events' = events \o d.evs
    /\ i' = i + 1
    /\ UNCHANGED << mode, pc, timeout_in, timeout, ssh_username, ssh_password,
                    locations, vi, successful_locations, failed_locations,
                    response >>
    /\ UNCHANGED target_vars
    /\ UNCHANGED lookup_vars
    /\ UNCHANGED server_vars

\* ------------------------------------------------------------ full batch
\* One iteration of the loop of reset_all_locations and of its SSE variant:
\* no probe; "continue" and the except clause both skip the 2 s delay.
AllIteration(m, loc, cfg, r, last) ==
    LET poe == ResetPortPoe(loc, r)
        sse == m = "sse_all"
        lookup == << Op("cfg_lookup", loc, cfg) >>
        head == IF sse THEN << Ev("reset_attempt", loc, "-") >> ELSE << >>
        err == IF sse THEN << Ev("reset_error", loc, "-") >> ELSE << >>
        delay == IF last THEN << >> ELSE << Op("sleep_inter", 0, "") >>
        wait == IF sse /\ ~last THEN << Ev("progress", 0, "-") >> ELSE << >>
    IN  CASE cfg = "none" ->
               [ok |-> << >>,
                bad |-> << [location |-> loc, error |-> "config_missing"] >>,
                ops |-> lookup, evs |-> head \o err]
          [] cfg = "raise" ->
               [ok |-> << >>,
                bad |-> << [location |-> loc, error |-> "exception"] >>,
                ops |-> lookup, evs |-> head \o err]
          [] cfg = "found" /\ poe.ok ->
               [ok |-> << loc >>, bad |-> << >>,
                ops |-> lookup \o poe.ops \o delay,
                evs |-> head \o (IF sse THEN << Ev("reset_success", loc, "-") >>
                                 ELSE << >>) \o wait]
          [] cfg = "found" /\ ~poe.ok ->
               [ok |-> << >>,
                bad |-> << [location |-> loc, error |-> "reset_failed"] >>,
                ops |-> lookup \o poe.ops
                        \o (IF sse THEN << >> ELSE << Op("diag", loc, "") >>)
                        \o delay,
                evs |-> head \o err \o wait]

\* One iteration of the loop of ResetAll.reset_all_locations: no probe;
\* reset_single_location gives True or False, False puts the bare location
\* name on failed_locations, success_count is the length of the success
\* list; 5 s of sleep follow every target but the last.
ScriptAllIteration(loc, cfg, r, last) ==
    LET s == RemediateScript(loc, cfg, r) IN
    [ok |-> IF s.rs # << >> THEN << loc >> ELSE << >>,
     bad |-> IF s.rs # << >> THEN << >>
             ELSE << [location |-> loc, error |-> "-"] >>,
     ops |-> s.ops \o (IF last THEN << >> ELSE << Op("sleep_inter", 0, "") >>),
     evs |-> << >>]

SweepAll ==
    /\ pc = "sweep"
    /\ mode \in FullModes
    /\ i <= Len(locations)
    /\ \E cfg \in CfgOutcomes, r \in ResetOutcomes :
         LET last == i = Len(locations)
             d == IF mode = "script_all"
                  THEN ScriptAllIteration(locations[i], cfg, r, last)
                  ELSE AllIteration(mode, locations[i], cfg, r, last)
         IN  /\ successful_locations' = successful_locations \o d.ok
             /\ failed_locations' = failed_locations \o d.bad
             /\ oplog' = oplog \o d.ops
             /\ events' = events \o d.evs
    /\ i' = i + 1
    /\ UNCHANGED << mode, pc, timeout_in, timeout, ssh_username, ssh_password,
                    locations, vi, down_locations, reset_attempted,
                    reset_successful, reset_failed, not_down, response >>
    /\ UNCHANGED target_vars
    /\ UNCHANGED lookup_vars
    /\ UNCHANGED server_vars

\* ---------------------------------------------------- batch verification
\* The verification block follows the "for location in locations" loop: it
\* is reached once the loop has gone through every location.
SweepFinishedEarly(idx, n) == idx > 1
SweepFinished(idx, n) == idx > n

\* if successful_resets > 0  (HTTP down-only handlers; the script never
\* verifies)
NeedsVerification(m, n) == m \in DownHttpModes /\ n > 0

\* int(os.getenv('BATCH_VERIFICATION_DELAY_SECONDS', '30')), then
\* time.sleep.  A value int() rejects raises ValueError, and so does
\* time.sleep of a negative number; only the handler's outermost except
\* catches either.  The stream's batch_verification_start frame is yielded
\* between the two calls.
Settle ==
    /\ pc = "sweep"
    /\ SweepFinished(i, Len(locations))
    /\ NeedsVerification(mode, Len(reset_successful))
    /\ \E d \in DelayEnvValues :
         IF d \in {"not_int", "neg_int"}
         THEN /\ pc' = "done"
              /\ response' = Resp("false", IF mode = "sse_down" THEN 200 ELSE 500,
                                  "error_type", "unexpected")
              /\ events' = IF mode = "sse_down"
                           THEN events
                                \o (IF d = "neg_int"
                                    THEN << Ev("batch_verification_start", 0, "-") >>
                                    ELSE << >>)
                                \o << Ev("error", 0, "-") >>
                           ELSE events
              /\ UNCHANGED << oplog, vi >>
         ELSE /\ pc' = "verify"
              /\ vi' = 1
              /\ oplog' = Append(oplog, Op("sleep_settle", 0, d))
              /\ events' = IF mode = "sse_down"
                           THEN Append(events,
                                       Ev("batch_verification_start", 0, "-"))
                           ELSE events
              /\ UNCHANGED response
    /\ UNCHANGED << mode, timeout_in, timeout, ssh_username, ssh_password,
                    locations, i, down_locations, reset_attempted,
                    reset_successful, reset_failed, not_down,
                    successful_locations, failed_locations >>
    /\ UNCHANGED target_vars
    /\ UNCHANGED lookup_vars
    /\ UNCHANGED server_vars

\* reset_entry['verified'] = True / False, written into the entry itself
MarkVerifiedAlways(entry, ok) == [entry EXCEPT !.verified = TRUE]
MarkVerified(entry, ok) == [entry EXCEPT !.verified = ok]

\* One iteration of "for reset_entry in reset_successful".
VerifyStep ==
    /\ pc = "verify"
    /\ vi <= Len(reset_successful)
    /\ \E p \in ProbeOutcomes :
         LET e == reset_successful[vi]
             ok == VerifyPortConnectivity(p)
         IN  /\ reset_successful' =
                   [reset_successful EXCEPT ![vi] = MarkVerified(e, ok)]
             /\ oplog' = Append(oplog, Op("verify", e.location,
                                          IF ok THEN "ok" ELSE "fail"))
             /\ events' = IF mode = "sse_down"
                          THEN events \o
                               << Ev("verification_progress", e.location, "-"),
                                  Ev(IF ok THEN "verification_success"
                                     ELSE "verification_failed",
                                     e.location, "-") >>
                          ELSE events
    /\ vi' = vi + 1
    /\ UNCHANGED << mode, pc, timeout_in, timeout, ssh_username, ssh_password,
                    locations, i, down_locations, reset_attempted,
                    reset_failed, not_down, successful_locations,
                    failed_locations, response >>
    /\ UNCHANGED target_vars
    /\ UNCHANGED lookup_vars
    /\ UNCHANGED server_vars

\* ----------------------------------------------------------------- result
B2S(b) == IF b THEN "true" ELSE "false"

Verified(rs) == { k \in 1..Len(rs) : rs[k].verified }

\* The summary sentence of the down-only handlers.
DownMessage(rs) ==
    IF Len(rs) > 0
    THEN (IF Cardinality(Verified(rs)) = Len(rs) THEN "all_verified"
          ELSE IF Cardinality(Verified(rs)) > 0 THEN "some_verified"
          ELSE "none_verified")
    ELSE "no_ports_needed"

\* overall_success = len(reset_failed) == 0 or successful_resets > 0
OverallSuccessDown(nfailed, nsucc) == nfailed = 0 \/ nsucc > 0

\* reset_all_locations: failed_count == 0, else at least one success
OverallSuccessAllStrict(nsucc, nfailed) == nfailed = 0
OverallSuccessAll(nsucc, nfailed) == IF nfailed = 0 THEN TRUE ELSE nsucc > 0

\* reset_all_locations_sse: success_count == total, else at least one
OverallSuccessAllSse(nsucc, total) == IF nsucc = total THEN TRUE ELSE nsucc > 0

\* The response each handler builds once its loops are over.
FinalResponse ==
    CASE mode = "http_down" ->
           LET s == OverallSuccessDown(Len(reset_failed), Len(reset_successful))
           IN  Resp(B2S(s), IF s THEN 200 ELSE 500, "lists",
                    DownMessage(reset_successful))
      [] mode = "sse_down" ->
           \* both complete frames carry 'success': True
           Resp("true", 200, "stream", DownMessage(reset_successful))
      [] mode = "script_down" ->
           \* the summary has no success flag; main exits 2 on any failure
           Resp("none", IF Len(reset_failed) > 0 THEN 2 ELSE 0, "lists",
                "summary")
      [] mode = "http_all" ->
           LET s == OverallSuccessAll(Len(successful_locations),
                                      Len(failed_locations))
           IN  Resp(B2S(s), IF s THEN 200 ELSE 500, "lists",
                    IF Len(failed_locations) = 0 THEN "all_reset"
                    ELSE "partial")
      [] mode = "script_all" ->
           \* no success flag either; main exits 2 when failed > 0
           Resp("none", IF Len(failed_locations) > 0 THEN 2 ELSE 0, "lists",
                "summary")
      [] mode = "sse_all" ->
           LET s == OverallSuccessAllSse(Len(successful_locations),
                                         Len(locations))
           IN  Resp(B2S(s), 200, "stream",
                    IF Len(successful_locations) = Len(locations)
                    THEN "all_reset" ELSE "partial")

LoopsOverSweepOnly ==
    /\ pc = "sweep"
    /\ SweepFinished(i, Len(locations))
    /\ ~NeedsVerification(mode, Len(reset_successful))
LoopsOver ==
    \/ /\ pc = "sweep"
       /\ SweepFinished(i, Len(locations))
       /\ ~NeedsVerification(mode, Len(reset_successful))
    \/ /\ pc = "verify"
       /\ vi > Len(reset_successful)

Finish ==
    /\ LoopsOver
    /\ pc' = "done"
    /\ response' = FinalResponse
    /\ events' = IF mode \in SseModes
                 THEN Append(events, Ev("complete", 0, FinalResponse.flag))
                 ELSE events
    /\ UNCHANGED << mode, timeout_in, timeout, ssh_username, ssh_password,
                    locations, i, vi, down_locations, reset_attempted,
                    reset_successful, reset_failed, not_down,
                    successful_locations, failed_locations, oplog >>
    /\ UNCHANGED target_vars
    /\ UNCHANGED lookup_vars
    /\ UNCHANGED server_vars

Next ==
    \/ CheckPreconditions
    \/ LoadDirectory
    \/ SweepDown
    \/ SweepAll
    \/ Settle
    \/ VerifyStep
    \/ Finish

Spec == Init /\ [][Next]_vars

\* A streamed run whose generator is driven to its end: Flask iterates the
\* generator for as long as it yields, and every probe, remote call and
\* sleep of a step returns, so a step that can be taken is taken.
StreamInit == Init /\ mode \in SseModes

StreamSpec == StreamInit /\ [][Next]_vars /\ WF_vars(Next)

\* ============================================== one target in detail
\* The handling of a single target by one caller, with reset_port_poe taken
\* step by step: probe, configuration lookup, the remote session, the
\* caller's record of the outcome, the verification probe.
\* /network/reset_port is the endpoint that resets one named location.
TargetCallers == Modes \cup {"reset_port"}

\* time.sleep(2) after invoke_shell and after every command; time.sleep(3)
\* between the two command sequences.
CommandWait == 2
SettleWait == 3

\* disable_commands / enable_commands
EnableCommandsSetDisable == << "edit", "set_disable", "commit" >>
DisableCommands == << "edit", "set_disable", "commit" >>
EnableCommands == << "edit", "delete_disable", "commit" >>

Commands(phase) == IF phase = "disable" THEN DisableCommands
                   ELSE EnableCommands

\* One thing reset_port_poe did on the session.
W(o, ph, t, s) == [op |-> o, phase |-> ph, text |-> t, secs |-> s]

\* What ssh.connect can raise: the five reasons the function names and any
\* other exception.
ConnectReasons == {"AuthenticationException", "SSHException",
                   "socket.timeout", "ConnectionRefusedError",
                   "socket.gaierror"}
ConnectExceptions == ConnectReasons \cup {"Exception"}

\* What a call on an open session can raise.
SessionExceptions == {"SSHException", "socket.timeout", "Exception"}

\* The except clause that takes an exception (the first that matches, in
\* the order written; AuthenticationException is before its base class).
ExceptClauseNoCatchAll(e) ==
    CASE e = "AuthenticationException" -> "authentication"
      [] e = "SSHException" -> "protocol"
      [] e = "socket.timeout" -> "timeout"
      [] e = "ConnectionRefusedError" -> "refused"
      [] e = "socket.gaierror" -> "resolution"
      [] OTHER -> "uncaught"
ExceptClause(e) ==
    CASE e = "AuthenticationException" -> "authentication"
      [] e = "SSHException" -> "protocol"
      [] e = "socket.timeout" -> "timeout"
      [] e = "ConnectionRefusedError" -> "refused"
      [] e = "socket.gaierror" -> "resolution"
      [] OTHER -> "generic"

\* Every except clause prints its message and returns False; nothing is
\* closed there.  An exception no clause takes leaves the function.
PoeRaises(e) ==
    /\ exc' = e
    /\ poe_ret' = IF ExceptClause(e) = "uncaught" THEN "raised" ELSE "false"
    /\ tpc' = "returned"

\* The stage that follows a stage of the session.
NextStageNoSettle(st) ==
    CASE st = "shell" -> "disable"
      [] st = "disable" -> "enable"
      [] st = "settle" -> "enable"
      [] st = "enable" -> "close_shell"
      [] st = "close_shell" -> "status"
      [] st = "status" -> "close"
NextStage(st) ==
    CASE st = "shell" -> "disable"
      [] st = "disable" -> "settle"
      [] st = "settle" -> "enable"
      [] st = "enable" -> "close_shell"
      [] st = "close_shell" -> "status"
      [] st = "status" -> "close"

\* The target is the only location of a run that is in its sweep.
TargetInit ==
    /\ mode \in TargetCallers
    /\ pc = "sweep"
    /\ timeout_in = [kind |-> "absent", v |-> 0]
    /\ timeout = DefaultTimeout
    /\ ssh_username = "set"
    /\ ssh_password = "set"
    /\ locations = << 1 >>
    /\ i = 1
    /\ vi = 1
    /\ down_locations = << >>
    /\ reset_attempted = << >>
    /\ reset_successful = << >>
    /\ reset_failed = << >>
    /\ not_down = << >>
    /\ successful_locations = << >>
    /\ failed_locations = << >>
    /\ oplog = << >>
    /\ events = << >>
    /\ response = NoResponse
    /\ tpc = IF mode \in DownModes THEN "probe" ELSE "lookup"
    /\ port_assignment \in {"none", "row1"}
    /\ TargetIdle
    /\ ServerIdle
    /\ LookupIdle

\* The sweep probe of the down-only handlers (inline in routes.py, ping_host
\* in the script).
TargetProbe ==
    /\ tpc = "probe"
    /\ \E p \in ProbeOutcomes :
         LET cls == ProbeClass(mode, p) IN
         /\ probe' = [by |-> "sweep", p |-> p, reachable |-> cls = "reachable"]
         /\ tpc' = IF AttemptsReset(cls) THEN "lookup" ELSE "end"
    /\ UNCHANGED << ssh, shell, wire, cmd, exc, poe_ret, reported >>
    /\ UNCHANGED batch_vars
    /\ UNCHANGED lookup_vars
    /\ UNCHANGED server_vars
    /\ UNCHANGED world_vars

\* What the caller records when the lookup gives no configuration: the
\* HTTP handlers name the cause, the scripts only get False back.
LookupError(m, cfg) ==
    IF m = "script_all" THEN "-"
    ELSE IF m = "script_down" THEN "reset_failed"
    ELSE IF cfg = "none" THEN "config_missing"
    ELSE "exception"

\* What retrieve_ssh_info_from_config can give for the row the sheet holds
\* when it is called: it reads data.xlsx again on every call.
LookupOutcomes(r) ==
    IF RowUsable(r) THEN {"found", "raise"} ELSE {"none", "raise"}

\* The credentials that go into ssh_config.  The HTTP handlers use the
\* ssh_username / ssh_password they read before the loop; reset_port reads
\* them once for its one target; reset_single_location of the two scripts
\* calls load_dotenv() and os.getenv for every target.
CredsFor(m, env) ==
    IF m \in ScriptModes \cup {"reset_port"} THEN env ELSE "at_start"

\* config = retrieve_ssh_info_from_config(location), then the ssh_config of
\* the call that follows.  A script that finds a credential missing at this
\* point prints the cause and returns False.
TargetLookup ==
    /\ tpc = "lookup"
    /\ \E cfg \in LookupOutcomes(port_assignment) :
         IF cfg = "found" /\ CredsFor(mode, environ) # "cleared"
         THEN /\ tpc' = "connect"
              /\ reported' = reported
              /\ ssh_config' = [row |-> port_assignment,
                                creds |-> CredsFor(mode, environ)]
         ELSE /\ tpc' = "end"
              /\ reported' = [NoReport EXCEPT !.error =
                                LookupError(mode, IF cfg = "found" THEN "none"
                                                  ELSE cfg)]
              /\ ssh_config' = ssh_config
    /\ UNCHANGED << probe, ssh, shell, wire, cmd, exc, poe_ret >>
    /\ UNCHANGED << port_assignment, environ >>
    /\ UNCHANGED batch_vars
    /\ UNCHANGED lookup_vars
    /\ UNCHANGED server_vars

\* POST /config/edit handled by another request thread (or the file saved
\* by hand under a script): the sheet is rewritten, the target's row with
\* it or without it.
EditConfig ==
    /\ tpc # "end"
    /\ \E r \in {"row2", "removed"} \ {port_assignment} :
         port_assignment' = r
    /\ UNCHANGED << tpc, probe, ssh, shell, wire, cmd, exc, poe_ret, reported,
                    environ, ssh_config >>
    /\ UNCHANGED batch_vars
    /\ UNCHANGED lookup_vars
    /\ UNCHANGED server_vars

\* The process environment gets other credentials, or loses them.
EnvChange ==
    /\ tpc # "end"
    /\ \E e \in {"changed", "cleared"} \ {environ} : environ' = e
    /\ UNCHANGED << tpc, probe, ssh, shell, wire, cmd, exc, poe_ret, reported,
                    port_assignment, ssh_config >>
    /\ UNCHANGED batch_vars
    /\ UNCHANGED lookup_vars
    /\ UNCHANGED server_vars

\* ssh.connect(hostname, port, username, password, timeout)
PoeConnect ==
    /\ tpc = "connect"
    /\ \/ /\ ssh' = "open"
          /\ wire' = Append(wire, W("connect", "-", "-", 0))
          /\ tpc' = "shell"
          /\ UNCHANGED << exc, poe_ret >>
       \/ /\ \E e \in ConnectExceptions : PoeRaises(e)
          /\ UNCHANGED << ssh, wire >>
    /\ UNCHANGED << probe, shell, cmd, reported >>
    /\ UNCHANGED batch_vars
    /\ UNCHANGED lookup_vars
    /\ UNCHANGED server_vars
    /\ UNCHANGED world_vars

\* shell = ssh.invoke_shell(); time.sleep(2)
PoeInvokeShell ==
    /\ tpc = "shell"
    /\ \/ /\ shell' = "open"
          /\ wire' = wire \o << W("invoke_shell", "-", "-", 0),
                                 W("sleep", "-", "-", CommandWait) >>
          /\ tpc' = NextStage(tpc)
          /\ UNCHANGED << exc, poe_ret >>
       \/ /\ \E e \in SessionExceptions : PoeRaises(e)
          /\ UNCHANGED << shell, wire >>
    /\ UNCHANGED << probe, ssh, cmd, reported >>
    /\ UNCHANGED batch_vars
    /\ UNCHANGED lookup_vars
    /\ UNCHANGED server_vars
    /\ UNCHANGED world_vars

\* One round of "for command in ...": shell.send(command), time.sleep(2),
\* then the read of whatever output is ready.
PoeSend ==
    /\ tpc \in {"disable", "enable"}
    /\ LET sent == wire \o << W("send", tpc, Commands(tpc)[cmd], 0),
                               W("sleep", tpc, "-", CommandWait) >>
       IN  \/ /\ wire' = sent
              /\ IF cmd = Len(Commands(tpc))
                 THEN tpc' = NextStage(tpc) /\ cmd' = 1
                 ELSE tpc' = tpc /\ cmd' = cmd + 1
              /\ UNCHANGED << exc, poe_ret >>
           \/ \* shell.send raises
              /\ \E e \in SessionExceptions : PoeRaises(e)
              /\ UNCHANGED << wire, cmd >>
           \/ \* shell.recv or the decoding of its bytes raises
              /\ \E e \in SessionExceptions : PoeRaises(e)
              /\ wire' = sent
              /\ cmd' = cmd
    /\ UNCHANGED << probe, ssh, shell, reported >>
    /\ UNCHANGED batch_vars
    /\ UNCHANGED lookup_vars
    /\ UNCHANGED server_vars
    /\ UNCHANGED world_vars

\* time.sleep(3)  ("Wait a bit before enabling")
PoeSettleWait ==
    /\ tpc = "settle"
    /\ wire' = Append(wire, W("sleep", "settle", "-", SettleWait))
    /\ tpc' = NextStage(tpc)
    /\ UNCHANGED << probe, ssh, shell, cmd, exc, poe_ret, reported >>
    /\ UNCHANGED batch_vars
    /\ UNCHANGED lookup_vars
    /\ UNCHANGED server_vars
    /\ UNCHANGED world_vars

\* shell.close()
PoeShellClose ==
    /\ tpc = "close_shell"
    /\ \/ /\ shell' = "closed"
          /\ wire' = Append(wire, W("shell_close", "-", "-", 0))
          /\ tpc' = NextStage(tpc)
          /\ UNCHANGED << exc, poe_ret >>
       \/ /\ \E e \in SessionExceptions : PoeRaises(e)
          /\ UNCHANGED << shell, wire >>
    /\ UNCHANGED << probe, ssh, cmd, reported >>
    /\ UNCHANGED batch_vars
    /\ UNCHANGED lookup_vars
    /\ UNCHANGED server_vars
    /\ UNCHANGED world_vars

\* ssh.exec_command('show poe interface ...'); stdout.read().decode()
\* (the output is printed when there is any)
PoeStatus ==
    /\ tpc = "status"
    /\ \/ /\ wire' = Append(wire, W("exec_status", "-", "-", 0))
          /\ tpc' = NextStage(tpc)
          /\ UNCHANGED << exc, poe_ret >>
       \/ \* exec_command raises
          /\ \E e \in SessionExceptions : PoeRaises(e)
          /\ wire' = wire
       \/ \* the read or the decoding raises
          /\ \E e \in SessionExceptions : PoeRaises(e)
          /\ wire' = Append(wire, W("exec_status", "-", "-", 0))
    /\ UNCHANGED << probe, ssh, shell, cmd, reported >>
    /\ UNCHANGED batch_vars
    /\ UNCHANGED lookup_vars
    /\ UNCHANGED server_vars
    /\ UNCHANGED world_vars

\* ssh.close(); return True
PoeClose ==
    /\ tpc = "close"
    /\ ssh' = "closed"
    /\ wire' = Append(wire, W("ssh_close", "-", "-", 0))
    /\ poe_ret' = "true"
    /\ tpc' = "returned"
    /\ UNCHANGED << probe, shell, cmd, exc, reported >>
    /\ UNCHANGED batch_vars
    /\ UNCHANGED lookup_vars
    /\ UNCHANGED server_vars
    /\ UNCHANGED world_vars

\* What the two socket calls of analyze_ssh_error meet: whether the name
\* resolves, and what connect_ex on the SSH port gives.
DiagWorlds == [resolves : BOOLEAN, connect : {"zero", "nonzero", "raises"}]

\* analyze_ssh_error
Diagnose(w) ==
    [hostname_resolution |-> IF w.resolves THEN "success" ELSE "failed",
     ssh_port_open |-> CASE w.connect = "zero" -> "open"
                         [] w.connect = "nonzero" -> "closed"
                         [] w.connect = "raises" -> "pending",
     connection_test |-> CASE w.connect = "zero" -> "success"
                           [] w.connect = "nonzero" -> "failed"
                           [] w.connect = "raises" -> "error"]

\* reset_port: "Determine error type based on diagnostics"
ErrorType(d) ==
    IF d.hostname_resolution = "failed" THEN "DNS_RESOLUTION_FAILED"
    ELSE IF d.ssh_port_open = "closed" THEN "SSH_PORT_CLOSED"
    ELSE IF d.connection_test = "success" THEN "SSH_AUTHENTICATION_FAILED"
    ELSE "SSH_CONNECTION_TIMEOUT"

\* What a caller records for a target whose reset_port_poe gave False.  The
\* False is all the caller has: reset_port and the buffered full batch run
\* the diagnostics, the other handlers record a fixed text, the scripts
\* print the diagnostics and record a fixed text or the bare name.
Report(m, d) ==
    CASE m = "reset_port" ->
           [error |-> "reset_failed", error_type |-> ErrorType(d),
            diagnostics |-> d]
      [] m = "http_all" ->
           [error |-> "reset_failed", error_type |-> "none", diagnostics |-> d]
      [] m = "script_all" ->
           [error |-> "-", error_type |-> "none", diagnostics |-> NoDiag]
      [] OTHER ->
           [error |-> "reset_failed", error_type |-> "none",
            diagnostics |-> NoDiag]

\* if success: ... else: ...   after the call of reset_port_poe
TargetReport ==
    /\ tpc = "returned"
    /\ \/ /\ poe_ret = "true"
          /\ tpc' = IF mode \in DownHttpModes THEN "verify" ELSE "end"
          /\ reported' = reported
       \/ /\ poe_ret = "false"
          /\ tpc' = "end"
          /\ \E w \in DiagWorlds : reported' = Report(mode, Diagnose(w))
       \/ \* an exception out of reset_port_poe would reach the handler's
          \* own except clause
          /\ poe_ret = "raised"
          /\ tpc' = "end"
          /\ reported' = [NoReport EXCEPT !.error = "exception"]
    /\ UNCHANGED << probe, ssh, shell, wire, cmd, exc, poe_ret >>
    /\ UNCHANGED batch_vars
    /\ UNCHANGED lookup_vars
    /\ UNCHANGED server_vars
    /\ UNCHANGED world_vars

\* verify_port_connectivity(ip_address, timeout) after the settle delay
TargetVerify ==
    /\ tpc = "verify"
    /\ \E p \in ProbeOutcomes :
         probe' = [by |-> "verify", p |-> p,
                   reachable |-> VerifyPortConnectivity(p)]
    /\ tpc' = "end"
    /\ UNCHANGED << ssh, shell, wire, cmd, exc, poe_ret, reported >>
    /\ UNCHANGED batch_vars
    /\ UNCHANGED lookup_vars
    /\ UNCHANGED server_vars
    /\ UNCHANGED world_vars

TargetNext ==
    \/ TargetProbe
    \/ TargetLookup
    \/ PoeConnect
    \/ PoeInvokeShell
    \/ PoeSend
    \/ PoeSettleWait
    \/ PoeShellClose
    \/ PoeStatus
    \/ PoeClose
    \/ TargetReport
    \/ TargetVerify
    \/ EditConfig
    \/ EnvChange

TargetSpec == TargetInit /\ [][TargetNext]_vars

\* ==================================== the configuration lookup in detail
\* retrieve_ssh_info_from_config on one row of sheet 'Port assignment':
\* the address is taken out of the 'SSH IP' text, the port out of the
\* 'Switch port' descriptor.  Texts are sequences of characters.

\* Longest port descriptor drawn.
MaxPortLen == 5

DigitChars == << "0", "1", "2", "3", "4", "5", "6", "7", "8", "9" >>
Digits == { DigitChars[k] : k \in 1..10 }
DigitVal(c) == (CHOOSE k \in 1..10 : DigitChars[k] = c) - 1

\* \w of the regular expressions, over the characters that occur here.
IsWord(c) == c \notin {".", " ", ":", "/", "-"}

\* \b before position p of t (p = Len(t) + 1 is the end of the text).
Boundary(t, p) ==
    (p > 1 /\ IsWord(t[p - 1])) # (p <= Len(t) /\ IsWord(t[p]))

\* The lengths the octet group 25[0-5]|2[0-4][0-9]|[01]?[0-9][0-9]? can
\* take at position p, in the order the matcher tries them: the
\* alternatives left to right, the optional parts taken before left out.
OctetLens(t, p) ==
    LET c(k) == IF p + k <= Len(t) THEN t[p + k] ELSE ""
        D(x) == x \in Digits
    IN  (IF c(0) = "2" /\ c(1) = "5" /\ c(2) \in {"0", "1", "2", "3", "4", "5"}
         THEN << 3 >> ELSE << >>)
        \o (IF c(0) = "2" /\ c(1) \in {"0", "1", "2", "3", "4"} /\ D(c(2))
            THEN << 3 >> ELSE << >>)
        \o (IF c(0) \in {"0", "1"} /\ D(c(1)) /\ D(c(2))
            THEN << 3 >> ELSE << >>)
        \o (IF c(0) \in {"0", "1"} /\ D(c(1)) THEN << 2 >> ELSE << >>)
        \o (IF D(c(0)) /\ D(c(1)) THEN << 2 >> ELSE << >>)
        \o (IF D(c(0)) THEN << 1 >> ELSE << >>)

\* The match of octets k..4 of the pattern from position p: the position
\* after the match, 0 if there is none.  With strict the pattern ends in \b.
RECURSIVE TryOctet(_, _, _, _, _)
TryOctet(t, p, k, strict, lens) ==
    IF lens = << >> THEN 0
    ELSE LET q == p + Head(lens)
             r == IF k = 4
                  THEN (IF ~strict \/ Boundary(t, q) THEN q ELSE 0)
                  ELSE IF q <= Len(t) /\ t[q] = "."
                  THEN TryOctet(t, q + 1, k + 1, strict, OctetLens(t, q + 1))
                  ELSE 0
         IN  IF r # 0 THEN r ELSE TryOctet(t, p, k, strict, Tail(lens))

MatchAt(t, p, strict) ==
    IF strict /\ ~Boundary(t, p) THEN 0
    ELSE TryOctet(t, p, 1, strict, OctetLens(t, p))

\* re.findall(pattern, text)[0]: the leftmost match, << >> if none.
\* strict is ipv4_pattern, otherwise flexible_pattern.
FirstMatch(t, strict) ==
    LET starts == { p \in 1..Len(t) : MatchAt(t, p, strict) # 0 }
    IN  IF starts = {} THEN << >>
        ELSE LET p == CHOOSE x \in starts : \A y \in starts : x <= y
             IN  SubSeq(t, p, MatchAt(t, p, strict) - 1)

\* str.split(sep)
RECURSIVE SplitFrom(_, _, _)
SplitFrom(s, sep, cur) ==
    IF s = << >> THEN << cur >>
    ELSE IF Head(s) = sep THEN << cur >> \o SplitFrom(Tail(s), sep, << >>)
    ELSE SplitFrom(Tail(s), sep, Append(cur, Head(s)))

Split(s, sep) == SplitFrom(s, sep, << >>)

\* str.strip()
RECURSIVE Strip(_)
Strip(s) ==
    IF s = << >> THEN s
    ELSE IF Head(s) = " " THEN Strip(Tail(s))
    ELSE IF s[Len(s)] = " " THEN Strip(SubSeq(s, 1, Len(s) - 1))
    ELSE s

\* socket.inet_aton on a matched quad: an octet written with a leading zero
\* is read as octal and must not hold an 8 or a 9.
InetAton(ip) ==
    \A part \in { Split(ip, ".")[k] : k \in 1..Len(Split(ip, ".")) } :
      (Len(part) > 1 /\ part[1] = "0") =>
        \A k \in 1..Len(part) : part[k] \notin {"8", "9"}

\* extract_ip_address(text): the address, or ok = FALSE for ValueError.
ExtractIpAddress(text) ==
    LET t == Strip(text)
        strict == FirstMatch(t, TRUE)
        first_ip == IF strict # << >> THEN strict ELSE FirstMatch(t, FALSE)
    IN  IF text = << >> \/ first_ip = << >> \/ ~InetAton(first_ip)
        THEN [ok |-> FALSE, ip |-> << >>]
        ELSE [ok |-> TRUE, ip |-> first_ip]

\* switch_port.split('/')[-1]
NormalizePortFirstSegment(switch_port) == Split(switch_port, "/")[1]

NormalizePort(switch_port) ==
    Split(switch_port, "/")[Len(Split(switch_port, "/"))]

\* 'SSH IP' texts drawn: an optional lead, a dotted group whose first and
\* last octet vary, an optional tail.
Leads == { << >>, << " " >>, << "a" >>,
           << "B", "O", "A", "1", "F", "P", "O", "E", "2", " " >> }
OctetTexts == { << "0" >>, << "5" >>, << "1", "0" >>, << "0", "8" >>,
                << "9", "9" >>, << "2", "5", "5" >>, << "2", "5", "6" >>,
                << "9", "9", "9" >> }
Quad(a, b) == a \o << ".", "1", "2", ".", "0", "." >> \o b
Groups == { Quad(a, b) : a \in OctetTexts, b \in OctetTexts }
            \cup { << >>, << "1", ".", "2", ".", "3" >> }
Tails == { << >>, << ":", "2", "2" >>,
           << " ", "1", ".", "1", ".", "1", ".", "1" >> }
IpTexts == { l \o g \o t : l \in Leads, g \in Groups, t \in Tails }

\* 'Switch port' descriptors drawn: text over the characters of "ge-0/0/16"
\* kept to four, or a cell that holds a number.
PortChars == {"g", "0", "6", "/"}
PortTexts == UNION { [1..n -> PortChars] : n \in 1..MaxPortLen }
PortCells == { [kind |-> "text", text |-> d] : d \in PortTexts }
               \cup { [kind |-> "number", text |-> << "6" >>] }

DefaultIp == << "1", "0", ".", "1", "2", ".", "0", ".", "5" >>
DefaultPort == [kind |-> "text", text |-> << "g", "/", "0", "/", "6" >>]

\* df_clean[df_clean['Location'] == locName] after dropna: no row, or a row
\* with both cells filled.
Rows ==
    { NoRow }
    \cup { [present |-> TRUE, ssh_ip |-> t, switch_port |-> DefaultPort] :
             t \in IpTexts \ { << >> } }
    \cup { [present |-> TRUE, ssh_ip |-> DefaultIp, switch_port |-> c] :
             c \in PortCells }

LookupInit ==
    /\ mode = "reset_port"
    /\ pc = "sweep"
    /\ timeout_in = [kind |-> "absent", v |-> 0]
    /\ timeout = DefaultTimeout
    /\ ssh_username = "set"
    /\ ssh_password = "set"
    /\ locations = << 1 >>
    /\ i = 1
    /\ vi = 1
    /\ down_locations = << >>
    /\ reset_attempted = << >>
    /\ reset_successful = << >>
    /\ reset_failed = << >>
    /\ not_down = << >>
    /\ successful_locations = << >>
    /\ failed_locations = << >>
    /\ oplog = << >>
    /\ events = << >>
    /\ response = NoResponse
    /\ tpc = "lookup"
    /\ port_assignment = "row1"
    /\ TargetIdle
    /\ ServerIdle
    /\ row \in Rows
    /\ info = NoInfo

\* retrieve_ssh_info_from_config(locName): None without a row or without an
\* address in 'SSH IP'; a 'Switch port' cell that is not text has no split
\* and the call raises AttributeError.
RetrieveSshInfoFromConfig ==
    /\ info = NoInfo
    /\ LET ip == ExtractIpAddress(row.ssh_ip)
       IN  info' =
             IF ~row.present \/ ~ip.ok
             THEN [NoInfo EXCEPT !.state = "none"]
             ELSE IF row.switch_port.kind # "text"
             THEN [NoInfo EXCEPT !.state = "raised"]
             ELSE [state |-> "config", hostname |-> ip.ip, port |-> 22,
                   target_port |-> NormalizePort(row.switch_port.text)]
    /\ UNCHANGED row
    /\ UNCHANGED server_vars
    /\ UNCHANGED batch_vars
    /\ UNCHANGED target_vars

LookupNext == RetrieveSshInfoFromConfig

LookupSpec == LookupInit /\ [][LookupNext]_vars

\* ================================================ the server's threads
\* app.run(threaded=True): every request gets a thread of its own, and the
\* handlers that remediate run side by side.  A thread is followed from
\* the arrival of its request through the targets it remediates; what it
\* shares with the other threads is the switches.

\* Handlers that open remediation sessions, and the most targets one
\* request remediates here.
ServerHandlers == {"reset_port", "reset_down_port_only",
                   "reset_all_locations"}
MaxTargets == 2
Switches == {"sw1", "sw2"}

\* The request reaches a handler; reset_port has one target.
Arrive ==
    /\ \E t \in Threads, h \in ServerHandlers, n \in 1..MaxTargets :
         /\ requests[t].at = "idle"
         /\ requests[t].handler = "none"
         /\ h = "reset_port" => n = 1
         /\ requests' = [requests EXCEPT ![t] =
                           [NoRequest EXCEPT !.handler = h, !.at = "lookup",
                                             !.left = n]]
    /\ UNCHANGED batch_vars
    /\ UNCHANGED target_vars
    /\ UNCHANGED lookup_vars

\* config = retrieve_ssh_info_from_config(location): the switch of the
\* target, or nothing (the target is recorded as failed).
ThreadLookup ==
    /\ \E t \in Threads :
         /\ requests[t].at = "lookup"
         /\ \/ \E sw \in Switches :
                 requests' = [requests EXCEPT ![t].at = "connect",
                                              ![t].switch = sw,
                                              ![t].session = "none"]
            \/ requests' = [requests EXCEPT ![t].at = "returned",
                                            ![t].switch = "none",
                                            ![t].session = "none"]
    /\ UNCHANGED batch_vars
    /\ UNCHANGED target_vars
    /\ UNCHANGED lookup_vars

\* reset_port_poe: ssh.connect.  Nothing is tested or awaited before the
\* call; it succeeds or raises.
ThreadConnect ==
    /\ \E t \in Threads :
         /\ requests[t].at = "connect"
         /\ \/ requests' = [requests EXCEPT ![t].at = "session",
                                            ![t].session = "open"]
            \/ requests' = [requests EXCEPT ![t].at = "returned"]
    /\ UNCHANGED batch_vars
    /\ UNCHANGED target_vars
    /\ UNCHANGED lookup_vars

\* reset_port_poe: the commands, then ssh.close() and return True; or an
\* exception on the way, taken by an except clause that closes nothing.
ThreadSession ==
    /\ \E t \in Threads :
         /\ requests[t].at = "session"
         /\ \/ requests' = [requests EXCEPT ![t].at = "returned",
                                            ![t].session = "closed"]
            \/ requests' = [requests EXCEPT ![t].at = "returned"]
    /\ UNCHANGED batch_vars
    /\ UNCHANGED target_vars
    /\ UNCHANGED lookup_vars

\* The handler records the outcome and goes on to its next target, or
\* answers the request when none is left.
ThreadNextTarget ==
    /\ \E t \in Threads :
         /\ requests[t].at = "returned"
         /\ requests' = [requests EXCEPT
                           ![t].left = @ - 1,
                           ![t].at = IF requests[t].left > 1 THEN "lookup"
                                     ELSE "answered"]
    /\ UNCHANGED batch_vars
    /\ UNCHANGED target_vars
    /\ UNCHANGED lookup_vars

ServerInit ==
    /\ mode = "reset_port"
    /\ pc = "start"
    /\ timeout_in = [kind |-> "absent", v |-> 0]
    /\ timeout = DefaultTimeout
    /\ ssh_username = "set"
    /\ ssh_password = "set"
    /\ locations = << >>
    /\ i = 1
    /\ vi = 1
    /\ down_locations = << >>
    /\ reset_attempted = << >>
    /\ reset_successful = << >>
    /\ reset_failed = << >>
    /\ not_down = << >>
    /\ successful_locations = << >>
    /\ failed_locations = << >>
    /\ oplog = << >>
    /\ events = << >>
    /\ response = NoResponse
    /\ tpc = "idle"
    /\ port_assignment = "row1"
    /\ TargetIdle
    /\ LookupIdle
    /\ requests = [t \in Threads |-> NoRequest]

ServerNext ==
    \/ Arrive
    \/ ThreadLookup
    \/ ThreadConnect
    \/ ThreadSession
    \/ ThreadNextTarget

ServerSpec == ServerInit /\ [][ServerNext]_vars

\* ================================================================ claims
SshOps == {"ssh_open", "ssh_connect_failed", "ssh_close"}
Locs(seq) == { seq[k].location : k \in DOMAIN seq }
Count(o, l) == Cardinality({ k \in DOMAIN oplog :
                               oplog[k].op = o /\ oplog[k].loc = l })
Probed(l, cls) == \E k \in DOMAIN oplog : oplog[k] = Op("probe", l, cls)
Ran == pc = "done" /\ locations # << >>

\* C1: in the down-only batch a remote session is attempted for a location
\* only after that location's probe of the same run was classified
\* unreachable; a location whose probe succeeded is in not_down and has no
\* session operation at all.
C1_ResetOnlyWhenUnreachable ==
    mode \in DownModes =>
      /\ \A k \in DOMAIN oplog :
           oplog[k].op \in SshOps =>
             \E j \in 1..(k - 1) : oplog[j] = Op("probe", oplog[k].loc, "unreachable")
      /\ \A l \in 1..Len(locations) :
           Probed(l, "reachable") =>
             /\ l \in Locs(not_down)
             /\ \A k \in DOMAIN oplog : oplog[k].loc = l => oplog[k].op \notin SshOps

C1_Witness ==
    /\ mode = "http_down" /\ pc = "done"
    /\ Probed(1, "reachable") /\ 1 \in Locs(not_down)
    /\ Probed(2, "unreachable") /\ Count("ssh_open", 2) = 1

\* C2 (as claimed): in the down-only batch every target whose probe failed
\* or timed out is, once the sweep has moved past it, recorded in
\* reset_successful or in reset_failed.
C2_FailedProbeRemediated ==
    mode \in DownModes =>
      \A l \in 1..Len(locations) :
        (Probed(l, "unreachable") \/ Probed(l, "timeout")) =>
          l \in Locs(reset_successful) \cup Locs(reset_failed)

\* C3 (as claimed): in the down-only batch a target whose probe raised an
\* error other than a timeout is recorded as unreachable and a remediation
\* is attempted for it.
C3_ProbeErrorTreatedAsFailed ==
    mode \in DownModes =>
      \A l \in 1..Len(locations) :
        Probed(l, "error") =>
          l \in Locs(down_locations) /\ Count("cfg_lookup", l) = 1

\* C4: in the down-only batch a verification probe happens only after the
\* sweep has probed every location of the directory, and no sweep probe,
\* config lookup or remote session follows a verification probe.
C4_VerificationAfterSweep ==
    mode \in DownModes =>
      \A k \in DOMAIN oplog :
        oplog[k].op = "verify" =>
          /\ i > Len(locations)
          /\ \A l \in 1..Len(locations) :
               \E j \in 1..(k - 1) : oplog[j].op = "probe" /\ oplog[j].loc = l
          /\ \A j \in (k + 1)..Len(oplog) :
               oplog[j].op \notin SshOps \cup {"probe", "cfg_lookup"}

C4_Witness ==
    /\ mode = "sse_down" /\ Len(locations) = 3
    /\ Probed(1, "unreachable") /\ Probed(3, "reachable")
    /\ Count("verify", 1) = 1

\* C5 (as claimed): a down-only HTTP run that got past the preconditions has
\* slept the settle delay exactly once if a remediation succeeded and not at
\* all otherwise.
C5_SettleOnce ==
    (Ran /\ mode \in DownHttpModes) =>
      Count("sleep_settle", 0) = (IF Len(reset_successful) > 0 THEN 1 ELSE 0)

C7_OverallSuccess ==
    (Ran /\ mode \in DownHttpModes \cup AllModes) =>
      ((response.flag = "true") <=>
         IF mode \in AllModes THEN Len(successful_locations) > 0
         ELSE Len(reset_successful) > 0 \/ Len(down_locations) = 0)

\* C8 (as claimed): in the buffered down-only result every target is in
\* exactly one of not_down, reset_failed and reset_successful.
C8_OutcomePartition ==
    (Ran /\ mode = "http_down" /\ response.detail = "lists") =>
      \A l \in 1..Len(locations) :
        Cardinality({ s \in {"nd", "rf", "rs"} :
                        \/ s = "nd" /\ l \in Locs(not_down)
                        \/ s = "rf" /\ l \in Locs(reset_failed)
                        \/ s = "rs" /\ l \in Locs(reset_successful) }) = 1

\* The request ended at the timeout check / got past it.
C9_Rejected ==
    /\ pc = "done" /\ oplog = << >>
    /\ response.msg \in {"invalid_timeout", "unexpected"}
C9_Accepted == pc # "start" /\ ~C9_Rejected

C10_PreconditionFailed ==
    \/ ssh_username # "set"
    \/ ssh_password # "set"
    \/ timeout_in.kind \in {"str_bad", "null"}
    \/ timeout_in.kind = "int" /\ timeout_in.v \notin 1..300

\* C10: once the request has been checked, an invalid timeout or a missing
\* username or secret means the run is over with a failure, nothing was
\* loaded, probed or opened, no per-target list has an entry, and a stream
\* holds exactly one frame, an error frame.
C10_NoPartialExecution ==
    (pc # "start" /\ C10_PreconditionFailed) =>
      /\ pc = "done"
      /\ oplog = << >>
      /\ response.flag # "true"
      /\ response.msg \in {"invalid_timeout", "no_creds", "unexpected"}
      /\ response.detail \in {"none", "error_type"}
      /\ mode \notin SseModes => response.code \in {400, 500, 1}
      /\ locations = << >>
      /\ not_down = << >> /\ down_locations = << >> /\ reset_failed = << >>
      /\ reset_successful = << >> /\ reset_attempted = << >>
      /\ successful_locations = << >> /\ failed_locations = << >>
      /\ events = IF mode \in SseModes THEN << Ev("error", 0, "-") >> ELSE << >>

C10_Witness ==
    /\ mode = "sse_down" /\ pc = "done"
    /\ ssh_username = "set" /\ ssh_password = "unset"
    /\ timeout_in = [kind |-> "int", v |-> 300]
    /\ events = << Ev("error", 0, "-") >>

\* The directory was read without error and holds no location.
C11_EmptyDirectory ==
    /\ pc = "done"
    /\ oplog = << Op("load_dir", 0, "ok") >>
    /\ locations = << >>

\* C11 (as claimed): a run whose directory loads without error but holds no
\* location ends as a completed run with nothing processed: it does not
\* report failure (no success flag of false, no error frame, no error exit
\* code).
C11_EmptyDirectoryCompletes ==
    C11_EmptyDirectory =>
      /\ response.flag # "false"
      /\ response.code \in {200, 0}
      /\ response.msg # "no_locations"
      /\ \A k \in DOMAIN events : events[k].type # "error"

\* C13 (as claimed): once a session was opened for a target, no session
\* operation for another target happens before that session is closed.
C13_SessionsDoNotOverlap ==
    \A k \in DOMAIN oplog, n \in DOMAIN oplog :
      (/\ k < n
       /\ oplog[k].op = "ssh_open"
       /\ oplog[n].op \in SshOps
       /\ oplog[n].loc # oplog[k].loc) =>
        \E j \in (k + 1)..(n - 1) : oplog[j] = Op("ssh_close", oplog[k].loc, "")

\* An exception was raised in the step of location l: by the ping process
\* of the HTTP down-only sweep or by the configuration lookup.
RaisedAt(l) ==
    \/ Probed(l, "error")
    \/ \E k \in DOMAIN oplog : oplog[k] = Op("cfg_lookup", l, "raise")
Processed(l) ==
    \E k \in DOMAIN oplog :
      oplog[k].loc = l /\ oplog[k].op \in {"probe", "cfg_lookup"}
FailureList == IF mode \in DownModes THEN reset_failed ELSE failed_locations
Listed(l) ==
    \/ l \in Locs(not_down) \cup Locs(down_locations) \cup Locs(reset_failed)
              \cup Locs(reset_successful) \cup Locs(failed_locations)
    \/ \E k \in DOMAIN successful_locations : successful_locations[k] = l

ConfigMissing(l) ==
    \E k \in DOMAIN oplog : oplog[k] = Op("cfg_lookup", l, "none")

\* C18: a location whose lookup at remediation time gives nothing is in the
\* failure list, in the four HTTP handlers as a configuration-missing
\* entry; it is in no success list; no session operation is performed for
\* it; the run does not end before every location was processed.
C18_ConfigMissingRecorded ==
    \A l \in 1..Len(locations) :
      (ConfigMissing(l) /\ i > l) =>
        /\ l \in Locs(FailureList)
        /\ mode \notin ScriptModes =>
             \E k \in DOMAIN FailureList :
               FailureList[k] = [location |-> l, error |-> "config_missing"]
        /\ l \notin Locs(reset_successful)
        /\ \A k \in DOMAIN successful_locations : successful_locations[k] # l
        /\ \A k \in DOMAIN oplog :
             oplog[k].loc = l => oplog[k].op \notin SshOps
        /\ pc = "done" => \A e \in 1..Len(locations) : Processed(e)

C18_Witness ==
    /\ mode = "sse_all" /\ pc = "done" /\ Len(locations) = 2
    /\ ConfigMissing(1)
    /\ failed_locations = << [location |-> 1, error |-> "config_missing"] >>
    /\ successful_locations = << 2 >>

\* No probe of the run found a target unreachable.
AllReachable ==
    \A k \in DOMAIN oplog : oplog[k].op = "probe" => oplog[k].res = "reachable"

\* C20 (as claimed): a batch run in which no target is found unreachable
\* calls reset_port_poe for no target.  The full batch does not probe, so
\* each of its runs is also a run over a directory of reachable targets.
C20_NoAttemptWhenAllReachable ==
    AllReachable => \A k \in DOMAIN oplog : oplog[k].op \notin SshOps

\* The event types the stream description lists.
StreamEventTypes ==
    {"start", "progress", "ping_result", "reset_attempt", "reset_success",
     "reset_error", "batch_verification_start", "verification_progress",
     "verification_success", "verification_failed", "complete", "error"}

\* C21 (as claimed): every event of a progress stream has one of the listed
\* types.
C21_EventTypes ==
    \A k \in DOMAIN events : events[k].type \in StreamEventTypes

\* The run got past the timeout and credential checks and read the directory
\* without error.
PassedPreconditions ==
    \E k \in DOMAIN oplog : oplog[k] = Op("load_dir", 0, "ok")

TerminalEvents == {"complete", "error"}
ResetEvents == {"reset_attempt", "reset_success", "reset_error"}
VerificationEvents ==
    {"verification_progress", "verification_success", "verification_failed"}

\* C22 (as claimed): the stream of a batch run that passed the preconditions
\* begins with the one start event; a terminal event (complete or error) is
\* the last event, there is at most one, and the finished run has one; in a
\* down-only stream batch_verification_start occurs at most once, after
\* every reset event and before every verification event, no verification
\* event occurs without it, and a run that completes after a successful
\* remediation has it.
C22_StreamLifecycle ==
    (mode \in SseModes /\ PassedPreconditions) =>
      /\ events # << >>
      /\ \A k \in DOMAIN events : events[k].type = "start" <=> k = 1
      /\ \A k \in DOMAIN events :
           events[k].type \in TerminalEvents => k = Len(events)
      /\ pc = "done" <=> events[Len(events)].type \in TerminalEvents
      /\ \A k \in DOMAIN events, n \in DOMAIN events :
           /\ (/\ events[k].type = "batch_verification_start"
               /\ events[n].type \in ResetEvents) => n < k
           /\ (/\ events[k].type = "batch_verification_start"
               /\ events[n].type \in VerificationEvents) => k < n
           /\ (/\ events[k].type = "batch_verification_start"
               /\ events[n].type = "batch_verification_start") => k = n
      /\ \A n \in DOMAIN events :
           events[n].type \in VerificationEvents =>
             \E k \in 1..(n - 1) : events[k].type = "batch_verification_start"
      /\ (/\ mode = "sse_down"
          /\ events[Len(events)].type = "complete"
          /\ reset_successful # << >>) =>
           \E k \in DOMAIN events : events[k].type = "batch_verification_start"

\* A remediation attempt reached the switch: ssh.connect was called.
AttemptOps == {"ssh_open", "ssh_connect_failed"}

\* C27 (as claimed): in every batch mode an inter-target delay lies between
\* the remediation attempts of two different targets.
C27_DelayBetweenAttempts ==
    \A k \in DOMAIN oplog, n \in DOMAIN oplog :
      (/\ k < n
       /\ oplog[k].op \in AttemptOps
       /\ oplog[n].op \in AttemptOps
       /\ oplog[k].loc # oplog[n].loc) =>
        \E j \in (k + 1)..(n - 1) : oplog[j].op = "sleep_inter"

\* C28 (as claimed): the record appended when a remediation succeeded
\* ('verified': False) is still in reset_successful after the verification
\* of its target succeeded; the outcome went to another record.
C28_OriginalRecordKept ==
    \A l \in 1..Len(locations) :
      (\E j \in DOMAIN oplog : oplog[j] = Op("verify", l, "ok")) =>
        \E k \in DOMAIN reset_successful :
          reset_successful[k] = [location |-> l, verified |-> FALSE]

\* C29 (as claimed): the result of a buffered batch run that got past the
\* preconditions carries the per-target lists, and every location of the
\* directory is in one of them.
C29_DetailListsEveryTarget ==
    (Ran /\ mode \in HttpModes) =>
      /\ response.detail = "lists"
      /\ \A l \in 1..Len(locations) : Listed(l)

\* C33 (as claimed): the success flag in the complete event of the streamed
\* down-only run is the flag the buffered run computes from the same
\* outcomes, len(reset_failed) == 0 or successful_resets > 0.
C33_StreamFlagAsBuffered ==
    (/\ mode = "sse_down"
     /\ events # << >>
     /\ events[Len(events)].type = "complete") =>
      events[Len(events)].success =
        B2S(OverallSuccessDown(Len(reset_failed), Len(reset_successful)))

\* C34 (as claimed): a down-only run whose summary says that no ports needed
\* resetting found no target unreachable.
C34_NoPortsNeededMeansNoneDown ==
    (Ran /\ mode \in DownHttpModes /\ response.msg = "no_ports_needed") =>
      down_locations = << >>

\* How many entries of the two full-batch lists name location l.
InSuccessful(l) ==
    Cardinality({ k \in DOMAIN successful_locations :
                    successful_locations[k] = l })
InFailed(l) ==
    Cardinality({ k \in DOMAIN failed_locations :
                    failed_locations[k].location = l })

\* C36: when a full-batch HTTP run has finished its loop, every location of
\* the directory has exactly one entry in successful_locations or
\* failed_locations, the two counts add up to the number of locations, and
\* the flag reported is the one the buffered handler's rule and the
\* streamed handler's rule both give for those counts.
C36_FullBatchPartition ==
    (Ran /\ mode \in AllModes) =>
      /\ \A l \in 1..Len(locations) : InSuccessful(l) + InFailed(l) = 1
      /\ Len(successful_locations) + Len(failed_locations) = Len(locations)
      /\ response.flag = B2S(OverallSuccessAll(Len(successful_locations),
                                               Len(failed_locations)))
      /\ response.flag = B2S(OverallSuccessAllSse(Len(successful_locations),
                                                  Len(locations)))

C36_Witness ==
    /\ Ran /\ mode = "sse_all"
    /\ Len(locations) = 3
    /\ Len(successful_locations) = 1
    /\ Len(failed_locations) = 2
    /\ \E k \in DOMAIN oplog : oplog[k].op = "cfg_lookup" /\ oplog[k].res = "raise"

OutcomeEvents == {"reset_success", "reset_error"}

\* C37: in both streams every reset_attempt event of a location is followed
\* by an outcome event (reset_success or reset_error) of that location,
\* with no event of another location in between, and no second outcome
\* event of the location follows.
C37_AttemptThenOneOutcome ==
    \A k \in DOMAIN events :
      events[k].type = "reset_attempt" =>
        \E n \in (k + 1)..Len(events) :
          /\ events[n].type \in OutcomeEvents
          /\ events[n].loc = events[k].loc
          /\ \A j \in (k + 1)..(n - 1) :
               /\ events[j].loc = events[k].loc
               /\ events[j].type \notin OutcomeEvents
          /\ \A j \in (n + 1)..Len(events) :
               ~(events[j].type \in OutcomeEvents
                 /\ events[j].loc = events[k].loc)

C37_Witness ==
    /\ pc = "done" /\ mode = "sse_down"
    /\ \E k \in DOMAIN events, n \in DOMAIN events :
         /\ events[k] = Ev("reset_attempt", 1, "-")
         /\ events[k + 1] = Ev("reset_error", 1, "-")
         /\ events[n] = Ev("reset_attempt", 2, "-")
         /\ events[n + 1] = Ev("reset_success", 2, "-")

\* C39 (as claimed): when the ResetDownOnly script cannot load its
\* directory (columns absent, file missing, read error) the run is over
\* with the error summary 'No locations found', nothing was probed or
\* reset, and check_and_reset_down_ports did not raise.
C39_DirectoryFailureSummary ==
    (/\ mode = "script_down"
     /\ \E k \in DOMAIN oplog : oplog[k].op = "load_dir" /\ oplog[k].res # "ok")
      => /\ pc = "done"
         /\ Len(oplog) = 1
         /\ response = Resp("none", 1, "none", "no_locations")
         /\ down_locations = << >> /\ reset_failed = << >>
         /\ reset_successful = << >> /\ not_down = << >>

\* C32: every streamed run whose steps all return reaches its end, and the
\* last event of its stream is then complete or error.
C32_StreamTerminates ==
    <>(/\ pc = "done"
       /\ events # << >>
       /\ events[Len(events)].type \in TerminalEvents)

C32_Witness ==
    /\ pc = "done" /\ mode = "sse_down"
    /\ Len(locations) = MaxLocs
    /\ events[Len(events)].type = "complete"
    /\ \E k \in DOMAIN events : events[k].type = "reset_error"
    /\ \E k \in DOMAIN events : events[k].type = "verification_failed"

\* ------------------------------------------ claims checked on TargetSpec
\* reset_port_poe has returned to its caller (or an exception has left it).
PoeOver == poe_ret # "none"

\* C12 (as claimed): whenever reset_port_poe is over and its session had
\* been opened, the session is closed.
C12_SessionClosedOnReturn ==
    (PoeOver /\ ssh # "none") => ssh = "closed"

\* The complete remediation in the order the claims give: connect, the
\* disable sequence, the settle wait, the enable sequence, the close of the
\* channel, the status query, the close of the session.
SendAndWait(ph) ==
    << W("send", ph, "edit", 0), W("sleep", ph, "-", CommandWait),
       W("send", ph, IF ph = "disable" THEN "set_disable"
                     ELSE "delete_disable", 0),
       W("sleep", ph, "-", CommandWait),
       W("send", ph, "commit", 0), W("sleep", ph, "-", CommandWait) >>
CompleteSession ==
    << W("connect", "-", "-", 0), W("invoke_shell", "-", "-", 0),
       W("sleep", "-", "-", CommandWait) >>
    \o SendAndWait("disable")
    \o << W("sleep", "settle", "-", SettleWait) >>
    \o SendAndWait("enable")
    \o << W("shell_close", "-", "-", 0), W("exec_status", "-", "-", 0),
          W("ssh_close", "-", "-", 0) >>

\* C14: reset_port_poe never lets an exception out: once it is over it has
\* given True or False, False whenever a step raised, and True only with
\* every step of the session done.
C14_NeverPropagates ==
    /\ exc # "none" => poe_ret = "false"
    /\ PoeOver =>
         /\ poe_ret \in {"true", "false"}
         /\ poe_ret = "true" <=> exc = "none"
         /\ poe_ret = "true" => wire = CompleteSession

C14_Witness ==
    /\ tpc = "end" /\ mode = "http_down"
    /\ exc = "Exception" /\ poe_ret = "false"
    /\ shell = "open"
    /\ reported.error = "reset_failed"

\* C15: what reset_port_poe has done on the session is always an initial
\* part of connect, disable sequence with commit, settle wait, enable
\* sequence with commit, status query, close.  No enable command is sent
\* before the disable commit and the settle wait after it; every command is
\* followed by the fixed wait; True is given only after the enable commit
\* and the status query; a step that raises ends the attempt with False and
\* nothing more is done on the session.
C15_RemediationOrder ==
    /\ Len(wire) <= Len(CompleteSession)
    /\ wire = SubSeq(CompleteSession, 1, Len(wire))
    /\ \A k \in DOMAIN wire :
         (wire[k].op = "send" /\ wire[k].phase = "enable") =>
           \E j \in 1..(k - 1), m \in 1..(k - 1) :
             /\ j < m
             /\ wire[j] = W("send", "disable", "commit", 0)
             /\ wire[m] = W("sleep", "settle", "-", SettleWait)
    /\ \A k \in DOMAIN wire :
         wire[k].op = "send" =>
           /\ k < Len(wire)
           /\ wire[k + 1] = W("sleep", wire[k].phase, "-", CommandWait)
    /\ poe_ret = "true" =>
         \E j \in DOMAIN wire, m \in DOMAIN wire :
           /\ j < m
           /\ wire[j] = W("send", "enable", "commit", 0)
           /\ wire[m].op = "exec_status"
    /\ exc # "none" =>
         /\ poe_ret = "false"
         /\ tpc \in {"returned", "end"}
         /\ Len(wire) < Len(CompleteSession)
         /\ \A k \in DOMAIN wire : wire[k].op # "ssh_close"

C15_Witness ==
    /\ tpc = "end" /\ mode = "sse_all"
    /\ poe_ret = "true"
    /\ wire = CompleteSession
    /\ ssh = "closed" /\ shell = "closed"

\* C16 (as claimed): the failure recorded for a target whose connect failed
\* for one of the five reasons could not have been recorded for a connect
\* that failed for another of them.
C16_DistinctClassification ==
    (tpc = "end" /\ poe_ret = "false" /\ ssh = "none"
       /\ exc \in ConnectReasons) =>
      \A r \in ConnectReasons \ {exc} :
        \A w \in DiagWorlds : Report(mode, Diagnose(w)) # reported

\* C19 (as claimed): every probe of the batch workflow gives reachable iff
\* the ping process exited with status 0 and its output holds a response
\* marker.
C19_ProbeCriterion ==
    probe.by # "none" =>
      (probe.reachable <=>
         /\ probe.p.kind = "exit"
         /\ probe.p.rc = 0
         /\ (probe.p.ttl \/ (probe.p.ms /\ probe.p.time)))

\* C23 (as claimed): the management address and port a run uses for a
\* target are those of the directory as it was when the run started: no
\* ssh_config is built from a row written after the start.
C23_DirectorySnapshot ==
    ssh_config # NoConfig => ssh_config.row = "row1"

\* C24 (as claimed): a location whose 'Port assignment' row is missing or
\* incomplete when the run starts is not a target of the run: it is neither
\* probed nor looked up, and no failure is recorded for it.
C24_NoTargetWithoutPort ==
    port_assignment = "none" =>
      /\ probe = NoProbe
      /\ reported = NoReport

\* C30 (as claimed): the credentials a batch run hands to reset_port_poe are
\* those it read when it started, whatever the environment holds by then.
C30_CredentialsReadOnce ==
    (mode \in Modes /\ ssh_config # NoConfig) =>
      ssh_config.creds = "at_start"

\* The port's configuration on the switch: whether the candidate and the
\* committed configuration hold the statement "poe interface ... disable".
\* The switch takes the lines it is sent in order: set adds the statement
\* to the candidate, delete removes it, commit makes the candidate the
\* committed configuration, edit changes neither.
DeviceConfigs == [candidate : BOOLEAN, committed : BOOLEAN]

RECURSIVE DeviceAfter(_, _)
DeviceAfter(cfg, w) ==
    IF w = << >> THEN cfg
    ELSE LET x == Head(w)
             nxt == IF x.op # "send" THEN cfg
                    ELSE CASE x.text = "set_disable" ->
                                [cfg EXCEPT !.candidate = TRUE]
                           [] x.text = "delete_disable" ->
                                [cfg EXCEPT !.candidate = FALSE]
                           [] x.text = "commit" ->
                                [cfg EXCEPT !.committed = cfg.candidate]
                           [] OTHER -> cfg
         IN  DeviceAfter(nxt, Tail(w))

\* C31: after a call of reset_port_poe that returned True the committed
\* configuration of the port does not disable power delivery, whatever the
\* candidate and committed configuration were before the call; a second
\* call therefore leaves what the first left.
C31_EnabledAfterSuccess ==
    poe_ret = "true" =>
      \A before \in DeviceConfigs :
        /\ ~DeviceAfter(before, wire).committed
        /\ DeviceAfter(DeviceAfter(before, wire), wire)
             = DeviceAfter(before, wire)

C31_Witness ==
    /\ poe_ret = "true"
    /\ DeviceAfter([candidate |-> TRUE, committed |-> TRUE], wire)
         = [candidate |-> FALSE, committed |-> FALSE]
    /\ \E k \in DOMAIN wire : wire[k] = W("send", "disable", "commit", 0)

\* C35 (as claimed): when reset_port_poe has returned and the commit of the
\* disable sequence was sent, the commit of the enable sequence was sent
\* as well.
C35_EnableFollowsDisable ==
    (PoeOver /\ \E k \in DOMAIN wire : wire[k] = W("send", "disable", "commit", 0))
      => \E k \in DOMAIN wire : wire[k] = W("send", "enable", "commit", 0)

\* --------------------------------------------- claims checked on LookupSpec
\* A token of a text: a longest run of digits and dots, given by its first
\* and last position.
AddressChars == Digits \cup {"."}
Tokens(t) ==
    { << a, b >> \in (1..Len(t)) \X (1..Len(t)) :
        /\ a <= b
        /\ \A k \in a..b : t[k] \in AddressChars
        /\ a = 1 \/ t[a - 1] \notin AddressChars
        /\ b = Len(t) \/ t[b + 1] \notin AddressChars }

\* The decimal value of a run of digits.
RECURSIVE Decimal(_)
Decimal(s) ==
    IF s = << >> THEN 0
    ELSE 10 * Decimal(SubSeq(s, 1, Len(s) - 1)) + DigitVal(s[Len(s)])

\* A well-formed dotted quad: four runs of one to three digits, each of
\* value 0..255.
WellFormedQuad(s) ==
    LET parts == Split(s, ".")
    IN  /\ Len(parts) = 4
        /\ \A k \in 1..4 : /\ Len(parts[k]) \in 1..3
                           /\ Decimal(parts[k]) <= 255

ValidTokens(t) ==
    { tk \in Tokens(t) : WellFormedQuad(SubSeq(t, tk[1], tk[2])) }

\* C25 (as claimed): extraction gives the first token of the text that is a
\* well-formed dotted quad with every octet in 0..255, and fails when the
\* text has no such token.
C25_FirstValidQuadOrFailure ==
    (row.present /\ info # NoInfo /\ row.switch_port = DefaultPort) =>
      LET valid == ValidTokens(row.ssh_ip)
      IN  IF valid = {} THEN info.state = "none"
          ELSE LET first == CHOOSE x \in valid : \A y \in valid : x[1] <= y[1]
               IN  /\ info.state = "config"
                   /\ info.hostname = SubSeq(row.ssh_ip, first[1], first[2])

\* C26: for a 'Switch port' descriptor that is text, the port identifier
\* the lookup returns is the part of the descriptor after its last '/',
\* the whole descriptor when it has none: it holds no '/', and normalizing
\* it again gives it back.
C26_FinalSegment ==
    (info.state = "config" /\ row.switch_port.kind = "text") =>
      LET d == row.switch_port.text
          r == info.target_port
      IN  /\ \A k \in 1..Len(r) : r[k] # "/"
          /\ (\A k \in 1..Len(d) : d[k] # "/") => r = d
          /\ \E n \in 0..Len(d) : /\ r = SubSeq(d, n + 1, Len(d))
                                  /\ n = 0 \/ d[n] = "/"
          /\ NormalizePort(r) = r

C26_Witness ==
    /\ info.state = "config"
    /\ row.switch_port.text = << "g", "/", "0", "/", "6" >>
    /\ info.target_port = << "6" >>

\* --------------------------------------------- claims checked on ServerSpec
\* C38 (as claimed): no two request threads have a remediation session to
\* the same switch open at the same time.
C38_OneSessionPerSwitch ==
    \A t1 \in Threads, t2 \in Threads :
      (/\ t1 # t2
       /\ requests[t1].at = "session"
       /\ requests[t2].at = "session") =>
        requests[t1].switch # requests[t2].switch

====
